---------------------------- MODULE Spec2Model ----------------------------
(***************************************************************************)
(* Model of zos_reverse: binary ingestion, the linear-sweep disassembler   *)
(* with its native decoder, the CFG builder, the procedure detector and    *)
(* the region classifier.                                                  *)
(*                                                                         *)
(* Bytes are naturals in 0..255, byte strings are sequences of bytes.      *)
(* Python's None in an Optional[int] field is the value None below; every  *)
(* address the program computes is >= 0.  An Optional[str] field that is   *)
(* None (synthetic_label, annotation) is the empty string.                 *)
(***************************************************************************)
EXTENDS Integers, Sequences, FiniteSets, TLC

VARIABLES
    file,        \* bytes of the input file handed to process_file
    pc,          \* position inside process_file / detect_procedures
    ingestor,    \* BinaryIngestor: data, code_start, code_end, metadata
    disasm,      \* DisassemblyResult of Disassembler.disassemble
    builder,     \* CFGBuilder: leaders, blocks, the block under construction
    cfg,         \* ControlFlowGraph: entry_points, basic_blocks, unresolved_branches
    detector,    \* ProcedureDetector: procedures (in insertion order), proc_counter
    classifier,  \* RegionClassifier: regions, and the sections handed to classify
    exception,   \* exception raised inside process_file ("" when none)
    result       \* what process_file returned: "pending", "None", "DisassemblyResult"

vars == <<file, pc, ingestor, disasm, builder, cfg, detector, classifier, exception, result>>

----------------------------------------------------------------------------
(* Bounds of the model *)

\* longest input, counted in chunks of Chunks
MaxChunks == 3
\* longest input of the procedure-detector specification, in chunks
MaxDetectChunks == 3
\* longest input of the region-classifier specification, in chunks
MaxClassifyChunks == 4
\* largest number of sections handed to classify
MaxSections == 4

\* Python None of an Optional[int] field
None == -1

----------------------------------------------------------------------------
(* Formatting helpers: Python's str(n), f"{n:02X}", f"{n:08X}" *)

HexDigits == <<"0","1","2","3","4","5","6","7","8","9","A","B","C","D","E","F">>

RECURSIVE Hex(_, _)
\* f"{n:0wX}" for 0 <= n < 16^w
Hex(n, w) == IF w = 0 THEN "" ELSE Hex(n \div 16, w - 1) \o HexDigits[(n % 16) + 1]

\* str(n)
Str(n) == ToString(n)

\* data[lo:hi] with 0-based, end-exclusive Python slice semantics
Slice(data, lo, hi) ==
    LET h == IF hi > Len(data) THEN Len(data) ELSE hi
    IN  IF lo >= h THEN <<>> ELSE SubSeq(data, lo + 1, h)

\* data[i] with a 0-based index
At(data, i) == data[i + 1]

\* struct.unpack('>I', b[0:4])
U32(b) == ((b[1] * 256 + b[2]) * 256 + b[3]) * 256 + b[4]

\* struct.unpack('>i', b[0:4]): two's complement, the sign taken from the first byte
S32(b) == (((IF b[1] >= 128 THEN b[1] - 256 ELSE b[1]) * 256 + b[2]) * 256 + b[3]) * 256 + b[4]

\* f"{i:08X}" of struct.unpack('>I', b[0:4]), digit pairs byte by byte
HexU32(b) == Hex(b[1], 2) \o Hex(b[2], 2) \o Hex(b[3], 2) \o Hex(b[4], 2)

----------------------------------------------------------------------------
(* NativeDecoder *)

\* NativeDecoder.OPCODE_LENGTHS, by first opcode byte; 0 stands for "no entry"
OPCODE_LENGTHS(op) ==
    CASE op \in 0..31 -> 2
      [] op \in (64..81) \cup (84..95) -> 4
      [] op \in (134..146) \cup (148..155) -> 4
      [] op \in (208..215) \cup (217..223) -> 6
      [] op \in {240, 241, 242, 243, 248, 249, 250, 251, 252, 253} -> 6
      [] op \in {165, 167, 178, 179, 185} -> 4
      [] op \in {192, 194, 196, 198, 200} -> 6
      [] op \in {227, 235, 236, 237} -> 6
      [] op = 229 -> 4
      [] OTHER -> 0

\* NativeDecoder.get_instruction_length
get_instruction_length(opcode) ==
    IF opcode \in {178, 179, 185} THEN 4
    ELSE IF opcode \in {227, 235, 236, 237} THEN 6
    ELSE IF opcode \in {192, 194, 196, 198, 200} THEN 6
    ELSE IF OPCODE_LENGTHS(opcode) = 0 THEN 2 ELSE OPCODE_LENGTHS(opcode)

\* NativeDecoder.MNEMONICS as (opcode, mnemonic) pairs
MNEMONICS ==
    { <<5, "BALR">>, <<13, "BASR">>, <<7, "BCR">>, <<71, "BC">>,
      <<24, "LR">>, <<88, "L">>, <<80, "ST">>, <<144, "STM">>, <<152, "LM">>,
      <<65, "LA">>, <<26, "AR">>, <<90, "A">>, <<27, "SR">>, <<91, "S">>,
      <<18, "LTR">>, <<85, "CL">>, <<149, "CLI">>, <<21, "CLR">>,
      <<25, "CR">>, <<89, "C">>, <<137, "SLL">>, <<136, "SRL">>,
      <<19, "LCR">>, <<17, "LNR">>, <<16, "LPR">>, <<20, "NR">>,
      <<22, "OR">>, <<23, "XR">>, <<84, "N">>, <<86, "O">>, <<87, "X">>,
      <<150, "OI">>, <<148, "NI">>, <<151, "XI">>, <<146, "MVI">>,
      <<67, "IC">>, <<66, "STC">>, <<68, "EX">>, <<69, "BAL">>,
      <<70, "BCT">>, <<142, "SRDA">>, <<140, "SRDL">>, <<141, "SLDA">>,
      <<134, "BXH">>, <<135, "BXLE">>, <<210, "MVC">>, <<213, "CLC">>,
      <<220, "TR">>, <<221, "TRT">>, <<209, "MVN">>, <<211, "MVZ">>,
      <<241, "MVO">>, <<242, "PACK">>, <<243, "UNPK">>, <<215, "XC">>,
      <<214, "OC">>, <<212, "NC">>, <<217, "MVCK">>, <<218, "MVCP">>,
      <<219, "MVCS">>, <<222, "ED">>, <<223, "EDMK">>, <<250, "AP">>,
      <<251, "SP">>, <<248, "ZAP">>, <<249, "CP">>, <<252, "MP">>, <<253, "DP">> }

\* self.MNEMONICS.get(opcode, "UNKNOWN")
MnemonicOf(opcode) ==
    IF \E p \in MNEMONICS : p[1] = opcode
    THEN (CHOOSE p \in MNEMONICS : p[1] = opcode)[2]
    ELSE "UNKNOWN"

\* f"{d}({b})" with b, d taken from the two bytes B D D D
BaseDisp(hi, lo) == Str((hi % 16) * 256 + lo) \o "(" \o Str(hi \div 16) \o ")"

\* NativeDecoder._decode_instruction_details: (mnemonic, operands, format)
_decode_instruction_details(inst_bytes) ==
    LET opcode == inst_bytes[1]
        length == Len(inst_bytes)
        mnemonic == MnemonicOf(opcode)
        hiNib == inst_bytes[2] \div 16
        loNib == inst_bytes[2] % 16
    IN  IF length = 2 THEN
            [mnemonic |-> mnemonic, operands |-> <<Str(hiNib), Str(loNib)>>, format |-> "RR"]
        ELSE IF length = 4 THEN
            IF opcode >= 144 /\ opcode <= 155 THEN
                [mnemonic |-> mnemonic,
                 operands |-> <<"X'" \o Hex(inst_bytes[2], 2) \o "'",
                                BaseDisp(inst_bytes[3], inst_bytes[4])>>,
                 format |-> "SI"]
            ELSE IF opcode \in 136..143 THEN
                [mnemonic |-> mnemonic,
                 operands |-> <<Str(hiNib), Str(loNib), BaseDisp(inst_bytes[3], inst_bytes[4])>>,
                 format |-> "RS"]
            ELSE
                LET b2 == inst_bytes[3] \div 16
                    d2 == (inst_bytes[3] % 16) * 256 + inst_bytes[4]
                IN  [mnemonic |-> mnemonic,
                     operands |->
                        IF loNib # 0
                        THEN <<Str(hiNib), Str(d2) \o "(" \o Str(loNib) \o "," \o Str(b2) \o ")">>
                        ELSE <<Str(hiNib), Str(d2) \o "(" \o Str(b2) \o ")">>,
                     format |-> "RX"]
        ELSE IF length = 6 THEN
            IF opcode >= 208 /\ opcode <= 223 THEN
                LET b1 == inst_bytes[3] \div 16
                    d1 == (inst_bytes[3] % 16) * 256 + inst_bytes[4]
                IN  [mnemonic |-> mnemonic,
                     operands |-> <<Str(d1) \o "(" \o Str(inst_bytes[2]) \o "," \o Str(b1) \o ")",
                                    BaseDisp(inst_bytes[5], inst_bytes[6])>>,
                     format |-> "SS"]
            ELSE IF opcode \in {192, 194, 196, 198, 200} THEN
                [mnemonic |-> mnemonic,
                 operands |-> <<Str(hiNib), "X'" \o HexU32(SubSeq(inst_bytes, 3, 6)) \o "'">>,
                 format |-> "RIL"]
            ELSE [mnemonic |-> mnemonic, operands |-> <<>>, format |-> "UNKNOWN"]
        ELSE [mnemonic |-> mnemonic, operands |-> <<>>, format |-> "UNKNOWN"]

\* variant of _calculate_branch_target that reads the two bytes after the
\* register byte as one 16-bit displacement and ignores the base register
_calculate_branch_target_Flat(inst_bytes, address, fmt) ==
    IF fmt = "RX" /\ Len(inst_bytes) >= 4 THEN
        inst_bytes[3] * 256 + inst_bytes[4]
    ELSE IF fmt = "RIL" /\ Len(inst_bytes) >= 6 THEN
        address + S32(SubSeq(inst_bytes, 3, 6)) * 2
    ELSE None

\* variant of _calculate_branch_target that returns the displacement whatever
\* the base register is
_calculate_branch_target_AnyBase(inst_bytes, address, fmt) ==
    IF fmt = "RX" /\ Len(inst_bytes) >= 4 THEN
        (inst_bytes[3] % 16) * 256 + inst_bytes[4]
    ELSE IF fmt = "RIL" /\ Len(inst_bytes) >= 6 THEN
        address + S32(SubSeq(inst_bytes, 3, 6)) * 2
    ELSE None

_calculate_branch_target(inst_bytes, address, fmt) ==
    IF fmt = "RX" /\ Len(inst_bytes) >= 4 THEN
        IF inst_bytes[3] \div 16 = 0
        THEN (inst_bytes[3] % 16) * 256 + inst_bytes[4]
        ELSE None
    ELSE IF fmt = "RIL" /\ Len(inst_bytes) >= 6 THEN
        address + S32(SubSeq(inst_bytes, 3, 6)) * 2
    ELSE None

\* the mnemonics decode_instruction classifies as branches and as calls
BranchMnemonics == {"BC", "BCR", "BAL", "BALR", "BASR", "BAS", "BXH", "BXLE", "BCT", "BCTR"}
CallMnemonics == {"BALR", "BASR", "BAL", "BAS"}

\* the Instruction decode_instruction builds from the instruction's bytes
MakeInstruction(inst_bytes, address) ==
    LET d == _decode_instruction_details(inst_bytes)
        is_branch == d.mnemonic \in BranchMnemonics
    IN  [address |-> address,
         raw_bytes |-> inst_bytes,
         mnemonic |-> d.mnemonic,
         operands |-> d.operands,
         format |-> d.format,
         is_branch |-> is_branch,
         is_call |-> d.mnemonic \in CallMnemonics,
         is_return |-> \/ (d.mnemonic = "BCR" /\ d.operands # <<>> /\ d.operands[1] = "15")
                       \/ (d.mnemonic = "BR" /\ d.operands # <<>> /\ d.operands[1] = "14"),
         branch_target |-> IF is_branch /\ Len(inst_bytes) >= 4
                           THEN _calculate_branch_target(inst_bytes, address, d.format)
                           ELSE None,
         synthetic_label |-> "",
         annotation |-> "",
         confidence |-> IF d.mnemonic # "UNKNOWN" THEN "high" ELSE "low"]

\* NativeDecoder.decode_instruction can decode at offset (it returns an Instruction)
CanDecode(data, offset) ==
    /\ offset < Len(data)
    /\ offset + get_instruction_length(At(data, offset)) <= Len(data)

\* NativeDecoder.decode_instruction, where CanDecode holds
decode_instruction(data, offset, address) ==
    MakeInstruction(Slice(data, offset, offset + get_instruction_length(At(data, offset))),
                    address)

----------------------------------------------------------------------------
(* Disassembler *)

\* the locals of Disassembler.disassemble before its while loop
SweepStart(base_address) ==
    [offset |-> 0, current_address |-> base_address,
     unknown_start |-> None, unknown_bytes |-> <<>>,
     instructions |-> <<>>, unknown_regions |-> <<>>]

\* variant of SweepStep that forgets the pending unknown region when the next
\* instruction decodes
SweepStep_DropRegion(data, st) ==
    IF CanDecode(data, st.offset) THEN
        LET inst == decode_instruction(data, st.offset, st.current_address)
        IN  [st EXCEPT
                !.unknown_start = None,
                !.unknown_bytes = <<>>,
                !.instructions = Append(@, inst),
                !.offset = @ + Len(inst.raw_bytes),
                !.current_address = @ + Len(inst.raw_bytes)]
    ELSE
        [st EXCEPT
            !.unknown_start = IF @ = None THEN st.current_address ELSE @,
            !.unknown_bytes = @ \o Slice(data, st.offset, st.offset + 1),
            !.offset = @ + 1,
            !.current_address = @ + 1]

\* one iteration of the while loop of Disassembler.disassemble
SweepStep(data, st) ==
    IF CanDecode(data, st.offset) THEN
        LET inst == decode_instruction(data, st.offset, st.current_address)
        IN  [st EXCEPT
                !.unknown_regions =
                    IF st.unknown_start # None
                    THEN Append(@, <<st.unknown_start, st.current_address - 1, st.unknown_bytes>>)
                    ELSE @,
                !.unknown_start = None,
                !.unknown_bytes = <<>>,
                !.instructions = Append(@, inst),
                !.offset = @ + Len(inst.raw_bytes),
                !.current_address = @ + Len(inst.raw_bytes)]
    ELSE
        [st EXCEPT
            !.unknown_start = IF @ = None THEN st.current_address ELSE @,
            !.unknown_bytes = @ \o Slice(data, st.offset, st.offset + 1),
            !.offset = @ + 1,
            !.current_address = @ + 1]

RECURSIVE Sweep(_, _)
\* the while loop of Disassembler.disassemble
Sweep(data, st) ==
    IF st.offset < Len(data) THEN Sweep(data, SweepStep(data, st)) ELSE st

RECURSIVE SumSeq(_)
SumSeq(s) == IF s = <<>> THEN 0 ELSE s[1] + SumSeq(Tail(s))

\* the quotient total_bytes / (total_bytes + unknown_bytes) of _generate_statistics
\* as a fraction num/den with den > 0; 0 is 0/1
DecodeRate(total_bytes, unknown_bytes) ==
    IF total_bytes + unknown_bytes > 0
    THEN [num |-> total_bytes, den |-> total_bytes + unknown_bytes]
    ELSE [num |-> 0, den |-> 1]

\* variant of UnknownBytes that counts end - start for each region
UnknownBytes_EndMinusStart(unknown_regions) ==
    SumSeq([i \in 1..Len(unknown_regions) |->
               unknown_regions[i][2] - unknown_regions[i][1]])

\* unknown_bytes of _generate_statistics: sum of end - start + 1 over the regions
UnknownBytes(unknown_regions) ==
    SumSeq([i \in 1..Len(unknown_regions) |->
               unknown_regions[i][2] - unknown_regions[i][1] + 1])

\* Disassembler._generate_statistics: the byte totals and decode_rate
_generate_statistics(instructions, unknown_regions) ==
    LET total_bytes == SumSeq([i \in 1..Len(instructions) |-> Len(instructions[i].raw_bytes)])
        unknown_bytes == UnknownBytes(unknown_regions)
    IN  [instruction_count |-> Len(instructions),
         decoded_bytes |-> total_bytes,
         unknown_bytes |-> unknown_bytes,
         decode_rate |-> DecodeRate(total_bytes, unknown_bytes)]

\* variant of disassemble that does not record the unknown bytes pending when
\* the sweep ends
disassemble_NoTailRegion(data, base_address, metadata) ==
    LET st == Sweep(data, SweepStart(base_address))
    IN  [instructions |-> st.instructions,
         unknown_regions |-> st.unknown_regions,
         entry_points |-> IF metadata.entry_point # None /\ metadata.entry_point # 0
                          THEN <<metadata.entry_point>>
                          ELSE <<base_address>>,
         statistics |-> _generate_statistics(st.instructions, st.unknown_regions)]

\* Disassembler.disassemble: the DisassemblyResult, with the initial CFG's entry points
disassemble(data, base_address, metadata) ==
    LET st == Sweep(data, SweepStart(base_address))
        regions == IF st.unknown_start # None
                   THEN Append(st.unknown_regions,
                               <<st.unknown_start, st.current_address - 1, st.unknown_bytes>>)
                   ELSE st.unknown_regions
    IN  [instructions |-> st.instructions,
         unknown_regions |-> regions,
         entry_points |-> IF metadata.entry_point # None /\ metadata.entry_point # 0
                          THEN <<metadata.entry_point>>
                          ELSE <<base_address>>,
         statistics |-> _generate_statistics(st.instructions, regions)]

----------------------------------------------------------------------------
(* BinaryIngestor *)

\* BinaryIngestor.__init__
NewIngestor ==
    [data |-> <<>>, code_start |-> 0, code_end |-> 0,
     metadata |-> [format_type |-> "unknown", entry_point |-> None]]

\* BinaryIngestor._looks_like_load_module
_looks_like_load_module(data) ==
    /\ Len(data) >= 2
    /\ Slice(data, 0, 2) \in {<<71, 240>>, <<144, 236>>, <<24, 15>>, <<5, 192>>}

\* BinaryIngestor._has_pds_header
_has_pds_header(data) ==
    /\ Len(data) >= 20
    /\ \A i \in 1..8 : data[i] = 64 \/ (193 <= data[i] /\ data[i] <= 233)

\* BinaryIngestor._parse_load_module
_parse_load_module(ing) ==
    LET offset == IF _has_pds_header(ing.data) THEN 20 ELSE 0
    IN  [ing EXCEPT !.code_start = offset,
                    !.code_end = Len(ing.data),
                    !.metadata.entry_point = IF offset < Len(ing.data) THEN offset ELSE @]

\* BinaryIngestor._parse_program_object
_parse_program_object(ing) ==
    IF Len(ing.data) < 32 THEN ing
    ELSE LET text_size == U32(Slice(ing.data, 8, 12))
             entry_offset == U32(Slice(ing.data, 12, 16))
         IN  [ing EXCEPT !.code_start = 32,
                         !.code_end = IF 32 + text_size < Len(ing.data)
                                      THEN 32 + text_size ELSE Len(ing.data),
                         !.metadata.entry_point = entry_offset]

\* the entry candidates of BinaryIngestor._apply_heuristics, in scan order
EntryCandidates(data) ==
    LET limit == IF 256 < Len(data) - 2 THEN 256 ELSE Len(data) - 2
    IN  { i \in 0..(limit - 1) :
            /\ i % 2 = 0
            /\ \/ Slice(data, i, i + 2) = <<144, 236>>
               \/ At(data, i) \in {5, 13} }

\* BinaryIngestor._apply_heuristics
_apply_heuristics(ing) ==
    LET cands == EntryCandidates(ing.data)
    IN  [ing EXCEPT !.code_start = 0,
                    !.code_end = Len(ing.data),
                    !.metadata.entry_point =
                        IF cands # {} THEN CHOOSE i \in cands : \A j \in cands : i <= j
                        ELSE 0]

\* BinaryIngestor._detect_format
_detect_format(ing) ==
    IF Len(ing.data) >= 4 /\ Slice(ing.data, 0, 2) = <<0, 3>> THEN
        _parse_program_object([ing EXCEPT !.metadata.format_type = "program_object"])
    ELSE IF _looks_like_load_module(ing.data) THEN
        _parse_load_module([ing EXCEPT !.metadata.format_type = "load_module"])
    ELSE
        _apply_heuristics([ing EXCEPT !.metadata.format_type = "unknown"])

\* variant of load_file that accepts files of 4 bytes or more
load_file_Min4(ing, bytes) ==
    IF Len(bytes) < 4
    THEN [ingestor |-> [ing EXCEPT !.data = bytes], ok |-> FALSE]
    ELSE [ingestor |-> _detect_format([ing EXCEPT !.data = bytes]), ok |-> TRUE]

\* BinaryIngestor.load_file on a readable file: the ingestor afterwards and the value returned
load_file(ing, bytes) ==
    IF Len(bytes) < 8
    THEN [ingestor |-> [ing EXCEPT !.data = bytes], ok |-> FALSE]
    ELSE [ingestor |-> _detect_format([ing EXCEPT !.data = bytes]), ok |-> TRUE]

\* BinaryIngestor.get_code_bytes
get_code_bytes(ing) == Slice(ing.data, ing.code_start, ing.code_end)

----------------------------------------------------------------------------
(* CFGBuilder *)

\* the addresses of an instruction list: the keys of CFGBuilder.instruction_map
InstructionMap(instructions) == { instructions[i].address : i \in 1..Len(instructions) }

\* Python truth value of an Optional[int]: None and 0 are false
Truthy(v) == v # None /\ v # 0

\* CFGBuilder._is_unconditional_branch
_is_unconditional_branch(inst) ==
    \/ (inst.mnemonic = "BC" /\ inst.operands # <<>> /\ inst.operands[1] = "15")
    \/ (inst.mnemonic = "BCR" /\ inst.operands # <<>> /\ inst.operands[1] = "15")
    \/ inst.mnemonic = "B"
    \/ inst.mnemonic = "BR"

\* variant of LeadersOf that does not make branch targets leaders
LeadersOf_NoTargets(instructions, i) ==
    LET inst == instructions[i]
        next == IF i + 1 <= Len(instructions) THEN {instructions[i + 1].address} ELSE {}
    IN  IF inst.is_branch THEN
            (IF ~_is_unconditional_branch(inst) THEN next ELSE {})
        ELSE IF inst.is_call THEN next
        ELSE IF inst.is_return THEN next
        ELSE {}

\* the leaders the loop body of CFGBuilder._find_leaders adds for instruction i
LeadersOf(instructions, i) ==
    LET inst == instructions[i]
        next == IF i + 1 <= Len(instructions) THEN {instructions[i + 1].address} ELSE {}
    IN  IF inst.is_branch THEN
            (IF Truthy(inst.branch_target) /\ inst.branch_target \in InstructionMap(instructions)
             THEN {inst.branch_target} ELSE {})
            \cup (IF ~_is_unconditional_branch(inst) THEN next ELSE {})
        ELSE IF inst.is_call THEN next
        ELSE IF inst.is_return THEN next
        ELSE {}

\* CFGBuilder._find_leaders on a builder whose leader set is `leaders`
_find_leaders(leaders, instructions, entry_points) ==
    LET eps == leaders \cup { entry_points[k] : k \in { j \in 1..Len(entry_points) :
                                entry_points[j] \in InstructionMap(instructions) } }
        first == IF eps = {} /\ instructions # <<>> THEN {instructions[1].address} ELSE eps
    IN  first \cup UNION { LeadersOf(instructions, i) : i \in 1..Len(instructions) }

RECURSIVE SortedSeq(_)
\* sorted(s) of a set of integers
SortedSeq(s) ==
    IF s = {} THEN <<>>
    ELSE LET m == CHOOSE x \in s : \A y \in s : x <= y
         IN  <<m>> \o SortedSeq(s \ {m})

RECURSIVE SelectInstructions(_, _, _)
\* [inst for inst in instructions if lo <= inst.address <= hi]
SelectInstructions(instructions, lo, hi) ==
    IF instructions = <<>> THEN <<>>
    ELSE LET rest == SelectInstructions(Tail(instructions), lo, hi)
         IN  IF lo <= Head(instructions).address /\ Head(instructions).address <= hi
             THEN <<Head(instructions)>> \o rest
             ELSE rest

\* CFGBuilder._determine_block_type
_determine_block_type(instructions) ==
    IF instructions = <<>> THEN "unknown"
    ELSE IF instructions[1].synthetic_label = "ENTRY" THEN "entry"
    ELSE IF \E i \in 1..Len(instructions) : instructions[i].is_call THEN "call"
    ELSE IF instructions[Len(instructions)].is_return THEN "return"
    ELSE IF instructions[Len(instructions)].is_branch THEN "branch"
    ELSE "normal"

\* the end address CFGBuilder._create_basic_blocks gives the range of leader i
BlockEndAddr(sorted_leaders, i, instructions) ==
    IF i + 1 <= Len(sorted_leaders) THEN sorted_leaders[i + 1] - 1
    ELSE IF instructions # <<>>
         THEN instructions[Len(instructions)].address
              + Len(instructions[Len(instructions)].raw_bytes) - 1
         ELSE sorted_leaders[i]

\* variant of BlockEndAddress that gives the address of the block's last byte
BlockEndAddress_LastByte(leader, block_instructions) ==
    IF block_instructions # <<>>
    THEN block_instructions[Len(block_instructions)].address
         + Len(block_instructions[Len(block_instructions)].raw_bytes) - 1
    ELSE leader

\* the end_address field of the BasicBlock built from block_instructions
BlockEndAddress(leader, block_instructions) ==
    IF block_instructions # <<>>
    THEN block_instructions[Len(block_instructions)].address
    ELSE leader

\* the BasicBlock CFGBuilder._create_basic_blocks constructs for a leader
MakeBlock(leader, block_instructions) ==
    [id |-> "block_" \o Hex(leader, 8),
     start_address |-> leader,
     end_address |-> BlockEndAddress(leader, block_instructions),
     instructions |-> block_instructions,
     block_type |-> _determine_block_type(block_instructions),
     predecessors |-> {},
     successors |-> {},
     successors_iter |-> <<>>,
     fall_through |-> "",
     branch_targets |-> <<>>]

\* no BasicBlock (Python None where a block is expected)
NoBlock == [id |-> ""]

\* the instructions CFGBuilder._create_basic_blocks collects for leader i
BlockInstructions(sorted_leaders, i, instructions) ==
    SelectInstructions(instructions, sorted_leaders[i],
                       BlockEndAddr(sorted_leaders, i, instructions))

\* CFGBuilder.__init__
NewBuilder == [leaders |-> {}, blocks |-> <<>>, block |-> NoBlock]

\* CFGBuilder._create_basic_blocks: self.blocks is the dict set in __init__, so
\* self.blocks.append(block) raises AttributeError for the first leader whose
\* range holds an instruction; the block built for it stays in `block`
_create_basic_blocks(b, instructions) ==
    LET sorted_leaders == SortedSeq(b.leaders)
        hit == { i \in 1..Len(sorted_leaders) :
                    BlockInstructions(sorted_leaders, i, instructions) # <<>> }
    IN  IF hit = {} THEN [builder |-> b, raised |-> ""]
        ELSE LET i == CHOOSE x \in hit : \A y \in hit : x <= y
             IN  [builder |-> [b EXCEPT !.block =
                                  MakeBlock(sorted_leaders[i],
                                            BlockInstructions(sorted_leaders, i, instructions))],
                  raised |-> "AttributeError"]

\* CFGBuilder._add_control_flow_edges: enumerate(self.blocks) walks the keys of
\* the dict, so block.instructions raises AttributeError on a str key; with no
\* block the loop body never runs and the unresolved list comes back empty
_add_control_flow_edges(b) ==
    IF Len(b.blocks) = 0 THEN [unresolved |-> <<>>, raised |-> ""]
    ELSE [unresolved |-> <<>>, raised |-> "AttributeError"]

----------------------------------------------------------------------------
(* RegionClassifier *)

\* RegionClassifier.CODE_THRESHOLD and DATA_THRESHOLD (0.70 and 0.30), in hundredths
CODE_THRESHOLD == 70
DATA_THRESHOLD == 30

\* RegionClassifier.__init__; sections holds the argument of classify
NewClassifier == [sections |-> <<>>, regions |-> <<>>]

RECURSIVE DecodedBytesIn(_, _, _, _)
\* decoded_bytes of _classify_section: every instruction from position i on whose
\* address lies in start_addr..end_addr and whose mnemonic is not "UNKNOWN" adds
\* the length of its raw bytes
DecodedBytesIn(instructions, i, start_addr, end_addr) ==
    IF i > Len(instructions) THEN 0
    ELSE (IF /\ start_addr <= instructions[i].address
             /\ instructions[i].address <= end_addr
             /\ instructions[i].mnemonic # "UNKNOWN"
          THEN Len(instructions[i].raw_bytes) ELSE 0)
         + DecodedBytesIn(instructions, i + 1, start_addr, end_addr)

\* decode_rate of _classify_section as a fraction num/den with den > 0:
\* decoded_bytes / section_size if section_size > 0 else 0.0
SectionDecodeRate(decoded_bytes, section_size) ==
    IF section_size > 0 THEN [num |-> decoded_bytes, den |-> section_size]
    ELSE [num |-> 0, den |-> 1]

\* RegionClassifier._classify_section: the Region of one section; the evidence
\* text of the three arms is kept up to its rendering of the rate
_classify_section(start_addr, end_addr, instructions) ==
    LET section_size == end_addr - start_addr + 1
        decoded_bytes == DecodedBytesIn(instructions, 1, start_addr, end_addr)
        decode_rate == SectionDecodeRate(decoded_bytes, section_size)
        arm == IF 100 * decode_rate.num > CODE_THRESHOLD * decode_rate.den
               THEN <<"code", "high", "decode_rate > CODE_THRESHOLD">>
               ELSE IF 100 * decode_rate.num < DATA_THRESHOLD * decode_rate.den
               THEN <<"data", "medium", "decode_rate < DATA_THRESHOLD">>
               ELSE <<"unknown", "low", "decode_rate in uncertain range">>
    IN  [start_addr |-> start_addr,
         end_addr |-> end_addr,
         region_type |-> arm[1],
         confidence |-> arm[2],
         evidence |-> arm[3],
         decode_rate |-> decode_rate]

\* variant of SurroundedByCode that asks for CODE regions next to regions[i] in the list
SurroundedByCode_Adjacent(regions, i) ==
    /\ i > 1 /\ regions[i - 1].region_type = "code"
    /\ i < Len(regions) /\ regions[i + 1].region_type = "code"

\* has_code_before and has_code_after of _detect_constant_pools for regions[i]
SurroundedByCode(regions, i) ==
    /\ \E r \in 1..Len(regions) :
          regions[r].region_type = "code" /\ regions[r].end_addr < regions[i].start_addr
    /\ \E r \in 1..Len(regions) :
          regions[r].region_type = "code" /\ regions[r].start_addr > regions[i].end_addr

RECURSIVE _detect_constant_pools(_, _)
\* RegionClassifier._detect_constant_pools: the loop over self.regions from
\* position i on, changing the regions in place
_detect_constant_pools(regions, i) ==
    IF i > Len(regions) THEN regions
    ELSE IF /\ regions[i].region_type = "unknown"
            /\ regions[i].end_addr - regions[i].start_addr + 1 < 256
            /\ SurroundedByCode(regions, i)
         THEN _detect_constant_pools(
                  [regions EXCEPT ![i] =
                      [@ EXCEPT !.region_type = "data",
                                !.confidence = "medium",
                                !.evidence = "constant_pool_pattern (between code regions)"]],
                  i + 1)
         ELSE _detect_constant_pools(regions, i + 1)

----------------------------------------------------------------------------
(* Inputs *)

\* the instruction encodings and stray bytes the input files are built from
Chunks ==
    { <<5, 239>>,                 \* 05 EF        BALR 14,15
      <<7, 254>>,                 \* 07 FE        BCR 15,14
      <<7, 142>>,                 \* 07 8E        BCR 8,14
      <<24, 33>>,                 \* 18 21        LR 2,1
      <<144, 236, 208, 12>>,      \* 90 EC D0 0C  STM 14,12,12(13)
      <<71, 128, 0, 8>>,          \* 47 80 00 08  BC 8,8(0)
      <<71, 240, 0, 4>>,          \* 47 F0 00 04  BC 15,4(0)
      <<71, 128, 208, 32>>,       \* 47 80 D0 20  BC 8,32(13)
      <<71, 240, 16, 0>>,         \* 47 F0 10 00  BC 15,0(1)
      <<65, 16, 5, 0>>,           \* 41 10 05 00  LA 1,1280(0)
      <<69, 224, 0, 6>>,          \* 45 E0 00 06  BAL 14,6(0)
      <<210, 3, 16, 0, 32, 0>>,   \* D2 03 10 00 20 00  MVC
      <<0, 3>>,                   \* 00 03        program-object magic
      <<255>> }                   \* FF           stray byte

RECURSIVE ChunkSeqs(_)
\* the byte strings made of exactly n chunks
ChunkSeqs(n) ==
    IF n = 0 THEN {<<>>}
    ELSE { c \o t : c \in Chunks, t \in ChunkSeqs(n - 1) }

\* test_pipeline.py test_synthetic_binary: the 28-byte prologue/epilogue program
SyntheticBinary ==
    <<5, 239>> \o <<144, 236, 208, 12>> \o <<65, 16, 1, 0>> \o <<88, 32, 16, 0>>
    \o <<90, 32, 2, 0>> \o <<80, 32, 16, 0>> \o <<152, 236, 208, 12>> \o <<7, 254>>

\* test_pipeline.py test_cfg_builder: the program with a conditional branch
BranchProgram ==
    <<5, 239>> \o <<85, 32, 48, 0>> \o <<71, 128, 0, 20>> \o <<65, 16, 1, 0>>
    \o <<71, 240, 0, 28>> \o <<65, 16, 2, 0>> \o <<7, 254>>

\* a program object: 32-byte header (text_size 8, entry_offset 34) and 8 code bytes
ProgramObject ==
    <<0, 3, 0, 1, 0, 0, 0, 0>> \o <<0, 0, 0, 8>> \o <<0, 0, 0, 34>> \o <<0, 0, 0, 0>>
    \o <<0, 0, 0, 0, 0, 0, 0, 0, 0, 0, 0, 0>> \o <<65, 16, 5, 0>> \o <<7, 254>> \o <<7, 254>>

\* first bytes of the last two bytes of a buffer: a 2-byte opcode, a 4-byte
\* opcode, a 6-byte opcode and a byte without a table entry
TailOpcodes == {5, 71, 210, 255}

\* 10-byte buffers whose last byte is 0xFF: 8 bytes of chunks, a tail opcode, 0xFF
TailBuffers ==
    { p \o <<x, 255>> : p \in { q \in UNION { ChunkSeqs(n) : n \in 0..MaxChunks } : Len(q) = 8 },
                        x \in TailOpcodes }

\* the input files of the model
Inputs ==
    UNION { ChunkSeqs(n) : n \in 0..MaxChunks }
    \cup TailBuffers
    \cup {SyntheticBinary, BranchProgram, ProgramObject}

----------------------------------------------------------------------------
(* ReverseEngineeringPipeline.process_file *)

\* no DisassemblyResult yet
NoDisasm ==
    [instructions |-> <<>>, unknown_regions |-> <<>>, entry_points |-> <<>>,
     statistics |-> [instruction_count |-> 0, decoded_bytes |-> 0, unknown_bytes |-> 0,
                     decode_rate |-> [num |-> 0, den |-> 1]]]

\* ControlFlowGraph(module_name, entry_points): the other fields at their defaults
NewCfg(entry_points) ==
    [entry_points |-> entry_points, basic_blocks |-> <<>>, unresolved_branches |-> <<>>]

\* ProcedureDetector.__init__
NewDetector == [procedures |-> <<>>, proc_counter |-> 1]

Init ==
    /\ file \in Inputs
    /\ pc = "start"
    /\ ingestor = NewIngestor
    /\ disasm = NoDisasm
    /\ builder = NewBuilder
    /\ cfg = NewCfg(<<>>)
    /\ detector = NewDetector
    /\ classifier = NewClassifier
    /\ exception = ""
    /\ result = "pending"

\* process_file step 1: ingestor.load_file; a False return makes process_file return None
LoadFile ==
    /\ pc = "start"
    /\ LET r == load_file(ingestor, file)
       IN  /\ ingestor' = r.ingestor
           /\ pc' = IF r.ok THEN "loaded" ELSE "returned"
           /\ result' = IF r.ok THEN result ELSE "None"
    /\ UNCHANGED <<file, disasm, builder, cfg, detector, exception, classifier>>

\* process_file step 2: Disassembler.disassemble(code_bytes, ingestor.code_start, metadata)
Disassemble ==
    /\ pc = "loaded"
    /\ disasm' = disassemble(get_code_bytes(ingestor), ingestor.code_start, ingestor.metadata)
    /\ cfg' = NewCfg(disasm'.entry_points)
    /\ pc' = "disassembled"
    /\ UNCHANGED <<file, ingestor, builder, detector, exception, result, classifier>>

\* build_cfg: self._find_leaders(disasm_result.cfg.entry_points)
FindLeaders ==
    /\ pc = "disassembled"
    /\ builder' = [builder EXCEPT
                     !.leaders = _find_leaders(@, disasm.instructions, cfg.entry_points)]
    /\ pc' = "leaders"
    /\ UNCHANGED <<file, ingestor, disasm, cfg, detector, exception, result, classifier>>

\* build_cfg: self._create_basic_blocks()
CreateBasicBlocks ==
    /\ pc = "leaders"
    /\ LET r == _create_basic_blocks(builder, disasm.instructions)
       IN  /\ builder' = r.builder
           /\ exception' = r.raised
           /\ pc' = IF r.raised = "" THEN "blocks" ELSE "raised"
    /\ UNCHANGED <<file, ingestor, disasm, cfg, detector, result, classifier>>

\* build_cfg: unresolved = self._add_control_flow_edges()
AddControlFlowEdges ==
    /\ pc = "blocks"
    /\ LET r == _add_control_flow_edges(builder)
       IN  /\ exception' = r.raised
           /\ pc' = IF r.raised = "" THEN "edges" ELSE "raised"
    /\ UNCHANGED <<file, ingestor, disasm, builder, cfg, detector, result, classifier>>

\* build_cfg: cfg.unresolved_branches.extend(unresolved) reads the local cfg, which
\* is assigned only further down: UnboundLocalError
ExtendUnresolved ==
    /\ pc = "edges"
    /\ exception' = "UnboundLocalError"
    /\ pc' = "raised"
    /\ UNCHANGED <<file, ingestor, disasm, builder, cfg, detector, result, classifier>>

\* process_file: except Exception: log and return None
HandleException ==
    /\ pc = "raised"
    /\ result' = "None"
    /\ pc' = "returned"
    /\ UNCHANGED <<file, ingestor, disasm, builder, cfg, detector, exception, classifier>>

Next ==
    \/ LoadFile
    \/ Disassemble
    \/ FindLeaders
    \/ CreateBasicBlocks
    \/ AddControlFlowEdges
    \/ ExtendUnresolved
    \/ HandleException

Spec == Init /\ [][Next]_vars

----------------------------------------------------------------------------
(* ProcedureDetector *)

\* f"{n:04d}"
Dec4(n) ==
    IF n < 10 THEN "000" \o Str(n)
    ELSE IF n < 100 THEN "00" \o Str(n)
    ELSE IF n < 1000 THEN "0" \o Str(n)
    ELSE Str(n)

\* ProcedureDetector._find_block_by_address: the position in cfg.basic_blocks of
\* the first block whose [start_address, end_address] holds the address, 0 for None
_find_block_by_address(address, blocks) ==
    LET hit == { i \in 1..Len(blocks) :
                    blocks[i].start_address <= address /\ address <= blocks[i].end_address }
    IN  IF hit = {} THEN 0 ELSE CHOOSE i \in hit : \A j \in hit : i <= j

\* cfg.basic_blocks.get(block_id): the position of the block with that id, 0 for None
BlockById(block_id, blocks) ==
    LET hit == { i \in 1..Len(blocks) : blocks[i].id = block_id }
    IN  IF hit = {} THEN 0 ELSE CHOOSE i \in hit : TRUE

\* variant of _address_in_procedures that finds no procedure at any address
_address_in_procedures_Never(address, procedures) == FALSE

\* ProcedureDetector._address_in_procedures
_address_in_procedures(address, procedures) ==
    \E k \in 1..Len(procedures) : procedures[k].entry_address = address

\* ProcedureDetector._is_call_edge
_is_call_edge(from_block, to_block) ==
    /\ from_block.instructions # <<>>
    /\ LET last_inst == from_block.instructions[Len(from_block.instructions)]
       IN  last_inst.is_call /\ last_inst.branch_target = to_block.start_address

RECURSIVE _collect_procedure_blocks(_, _, _)
RECURSIVE CollectSuccessors(_, _, _, _)
\* ProcedureDetector._collect_procedure_blocks from the block at position bi;
\* acc carries visited and the procedure's basic_blocks and exit_addresses
_collect_procedure_blocks(bi, blocks, acc) ==
    LET start_block == blocks[bi]
    IN  IF start_block.id \in acc.visited THEN acc
        ELSE LET last_inst == start_block.instructions[Len(start_block.instructions)]
                 acc1 == [visited |-> acc.visited \cup {start_block.id},
                          basic_blocks |-> Append(acc.basic_blocks, start_block.id),
                          exit_addresses |->
                              IF start_block.instructions # <<>> /\ last_inst.is_return
                              THEN Append(acc.exit_addresses, last_inst.address)
                              ELSE acc.exit_addresses]
             IN  CollectSuccessors(bi, 1, blocks, acc1)

\* variant of CollectSuccessors that follows only the successor iterated first
CollectSuccessors_FirstOnly(bi, k, blocks, acc) ==
    IF k > 1 \/ k > Len(blocks[bi].successors_iter) THEN acc
    ELSE LET succ_id == blocks[bi].successors_iter[k]
             si == BlockById(succ_id, blocks)
         IN  IF succ_id \notin acc.visited /\ si # 0 /\ ~_is_call_edge(blocks[bi], blocks[si])
             THEN _collect_procedure_blocks(si, blocks, acc)
             ELSE acc

\* the loop over start_block.successors, from the k-th successor in iteration order
CollectSuccessors(bi, k, blocks, acc) ==
    IF k > Len(blocks[bi].successors_iter) THEN acc
    ELSE LET succ_id == blocks[bi].successors_iter[k]
             si == BlockById(succ_id, blocks)
         IN  IF succ_id \notin acc.visited /\ si # 0 /\ ~_is_call_edge(blocks[bi], blocks[si])
             THEN CollectSuccessors(bi, k + 1, blocks, _collect_procedure_blocks(si, blocks, acc))
             ELSE CollectSuccessors(bi, k + 1, blocks, acc)

\* the Procedure built by one of the three methods, its blocks collected from position bi
MakeProcedure(det, prefix, entry_address, method, confidence, bi, blocks) ==
    LET acc == _collect_procedure_blocks(bi, blocks,
                   [visited |-> {}, basic_blocks |-> <<>>, exit_addresses |-> <<>>])
    IN  [procedures |-> Append(det.procedures,
                          [id |-> "proc_" \o Dec4(det.proc_counter),
                           name |-> prefix \o Hex(entry_address, 8),
                           entry_address |-> entry_address,
                           exit_addresses |-> acc.exit_addresses,
                           basic_blocks |-> acc.basic_blocks,
                           calls_to |-> {},
                           called_by |-> {},
                           confidence |-> confidence,
                           detection_method |-> method]),
         proc_counter |-> det.proc_counter + 1]

\* ProcedureDetector._create_procedure_from_entry
_create_procedure_from_entry(det, entry_addr, blocks) ==
    LET bi == _find_block_by_address(entry_addr, blocks)
    IN  IF bi = 0 THEN det
        ELSE MakeProcedure(det, "ENTRY_", entry_addr, "entry_point", 95, bi, blocks)

RECURSIVE DetectEntries(_, _, _)
\* detect_procedures method 1: for entry_point in cfg.entry_points
DetectEntries(det, entry_points, blocks) ==
    IF entry_points = <<>> THEN det
    ELSE DetectEntries(_create_procedure_from_entry(det, Head(entry_points), blocks),
                       Tail(entry_points), blocks)

RECURSIVE AllInstructions(_)
\* the instructions of all blocks in the order the two nested loops visit them
AllInstructions(blocks) ==
    IF blocks = <<>> THEN <<>> ELSE Head(blocks).instructions \o AllInstructions(Tail(blocks))

\* the body of the loops of _detect_call_targets for one instruction
CallTargetStep(det, inst, blocks) ==
    IF inst.is_call /\ Truthy(inst.branch_target)
       /\ ~_address_in_procedures(inst.branch_target, det.procedures)
       /\ _find_block_by_address(inst.branch_target, blocks) # 0
    THEN MakeProcedure(det, "SUB_", inst.branch_target, "call_target", 85,
                       _find_block_by_address(inst.branch_target, blocks), blocks)
    ELSE det

RECURSIVE CallTargetLoop(_, _, _)
CallTargetLoop(det, insts, blocks) ==
    IF insts = <<>> THEN det
    ELSE CallTargetLoop(CallTargetStep(det, Head(insts), blocks), Tail(insts), blocks)

\* ProcedureDetector._detect_call_targets
_detect_call_targets(det, blocks) == CallTargetLoop(det, AllInstructions(blocks), blocks)

\* the prologue test of _detect_prologues on a block's first instruction
IsPrologue(first_inst) ==
    /\ first_inst.mnemonic = "STM"
    /\ first_inst.operands # <<>>
    /\ Len(first_inst.operands) >= 2
    /\ first_inst.operands[1] = "14"

\* the body of the loop of _detect_prologues for the block at position bi
PrologueStep(det, bi, blocks) ==
    IF /\ blocks[bi].instructions # <<>>
       /\ ~_address_in_procedures(blocks[bi].start_address, det.procedures)
       /\ IsPrologue(blocks[bi].instructions[1])
    THEN MakeProcedure(det, "FUNC_", blocks[bi].start_address, "prologue_pattern", 75,
                       bi, blocks)
    ELSE det

RECURSIVE PrologueLoop(_, _, _)
PrologueLoop(det, bi, blocks) ==
    IF bi > Len(blocks) THEN det
    ELSE PrologueLoop(PrologueStep(det, bi, blocks), bi + 1, blocks)

\* ProcedureDetector._detect_prologues
_detect_prologues(det, blocks) == PrologueLoop(det, 1, blocks)

\* ProcedureDetector._find_procedure_by_address: position of the procedure, 0 for None
_find_procedure_by_address(address, procedures) ==
    LET hit == { k \in 1..Len(procedures) : procedures[k].entry_address = address }
    IN  IF hit = {} THEN 0 ELSE CHOOSE k \in hit : \A j \in hit : k <= j

\* the (caller, callee) positions _build_call_graph connects
CallPairs(procedures, blocks) ==
    { pr \in (1..Len(procedures)) \X (1..Len(procedures)) :
        \E m \in 1..Len(procedures[pr[1]].basic_blocks) :
            LET bi == BlockById(procedures[pr[1]].basic_blocks[m], blocks)
            IN  /\ bi # 0
                /\ \E n \in 1..Len(blocks[bi].instructions) :
                      LET inst == blocks[bi].instructions[n]
                      IN  /\ inst.is_call
                          /\ Truthy(inst.branch_target)
                          /\ _find_procedure_by_address(inst.branch_target, procedures) = pr[2] }

\* ProcedureDetector._build_call_graph
_build_call_graph(det, blocks) ==
    LET pairs == CallPairs(det.procedures, blocks)
    IN  [det EXCEPT !.procedures =
            [k \in 1..Len(det.procedures) |->
                [det.procedures[k] EXCEPT
                    !.calls_to = { det.procedures[pr[2]].id : pr \in { q \in pairs : q[1] = k } },
                    !.called_by = { det.procedures[pr[1]].id : pr \in { q \in pairs : q[2] = k } }]]]

----------------------------------------------------------------------------
(* detect_procedures on a ControlFlowGraph filled through the IR's own methods *)

\* the chunks the detector's input files are built from
DetectChunks ==
    { <<5, 239>>,                 \* 05 EF        BALR 14,15
      <<7, 254>>,                 \* 07 FE        BCR 15,14
      <<144, 236, 208, 12>>,      \* 90 EC D0 0C  STM 14,12,12(13)
      <<65, 16, 5, 0>>,           \* 41 10 05 00  LA 1,1280(0)
      <<69, 224, 0, 6>>,          \* 45 E0 00 06  BAL 14,6(0)
      <<71, 128, 0, 8>> }         \* 47 80 00 08  BC 8,8(0)

RECURSIVE DetectChunkSeqs(_)
DetectChunkSeqs(n) ==
    IF n = 0 THEN {<<>>}
    ELSE { c \o t : c \in DetectChunks, t \in DetectChunkSeqs(n - 1) }

\* the detector's input files: those load_file accepts
DetectInputs ==
    { f \in UNION { DetectChunkSeqs(n) : n \in 0..MaxDetectChunks }
            \cup {SyntheticBinary, ProgramObject} :
        Len(f) >= 8 }

RECURSIVE AllBlocks(_, _, _)
\* the BasicBlocks the loop of _create_basic_blocks constructs, from leader i on
AllBlocks(sorted_leaders, i, instructions) ==
    IF i > Len(sorted_leaders) THEN <<>>
    ELSE LET bis == BlockInstructions(sorted_leaders, i, instructions)
             rest == AllBlocks(sorted_leaders, i + 1, instructions)
         IN  IF bis = <<>> THEN rest ELSE <<MakeBlock(sorted_leaders[i], bis)>> \o rest

\* the edges a block's terminator stands for: to the block holding its branch
\* target and to the next block in address order, as (from, to) positions
CandidateEdges(blocks) ==
    { e \in (1..Len(blocks)) \X (1..Len(blocks)) :
        LET last_inst == blocks[e[1]].instructions[Len(blocks[e[1]].instructions)]
        IN  \/ /\ last_inst.is_branch
               /\ Truthy(last_inst.branch_target)
               /\ _find_block_by_address(last_inst.branch_target, blocks) = e[2]
            \/ e[2] = e[1] + 1 }

RECURSIVE Perms(_)
\* the orders in which a set can be iterated
Perms(S) ==
    IF S = {} THEN {<<>>}
    ELSE UNION { { <<x>> \o p : p \in Perms(S \ {x}) } : x \in S }

RECURSIVE IterOrders(_, _, _)
\* one iteration order of the successor set for each block from position b on
IterOrders(edges, n, b) ==
    IF b > n THEN {<<>>}
    ELSE { <<p>> \o rest : p \in Perms({ e[2] : e \in { x \in edges : x[1] = b } }),
                           rest \in IterOrders(edges, n, b + 1) }

\* ControlFlowGraph.add_edge for every edge of `edges`; iter[b] is the order in
\* which the successor set of block b is iterated
add_edges(blocks, edges, iter) ==
    [b \in 1..Len(blocks) |->
        [blocks[b] EXCEPT
            !.successors = { blocks[e[2]].id : e \in { x \in edges : x[1] = b } },
            !.successors_iter = [k \in 1..Len(iter[b]) |-> blocks[iter[b][k]].id],
            !.predecessors = { blocks[e[1]].id : e \in { x \in edges : x[2] = b } }]]

\* the CFGs handed to detect_procedures for a disassembly: its blocks added with
\* add_block, any subset of the candidate edges added with add_edge
DetectCfgs(d) ==
    LET blocks == AllBlocks(SortedSeq(_find_leaders({}, d.instructions, d.entry_points)),
                            1, d.instructions)
    IN  UNION { { [entry_points |-> d.entry_points,
                   basic_blocks |-> add_edges(blocks, edges, iter),
                   unresolved_branches |-> <<>>] :
                  iter \in IterOrders(edges, Len(blocks), 1) } :
                edges \in SUBSET CandidateEdges(blocks) }

InitDetect ==
    /\ file \in DetectInputs
    /\ pc = "detect_entry"
    /\ ingestor = load_file(NewIngestor, file).ingestor
    /\ disasm = disassemble(get_code_bytes(ingestor), ingestor.code_start, ingestor.metadata)
    /\ builder = NewBuilder
    /\ cfg \in DetectCfgs(disasm)
    /\ detector = NewDetector
    /\ classifier = NewClassifier
    /\ exception = ""
    /\ result = "pending"

\* detect_procedures method 1: entry points are procedures
DetectEntryPoints ==
    /\ pc = "detect_entry"
    /\ detector' = DetectEntries(detector, cfg.entry_points, cfg.basic_blocks)
    /\ pc' = "detect_calls"
    /\ UNCHANGED <<file, ingestor, disasm, builder, cfg, exception, result, classifier>>

\* detect_procedures method 2: targets of calls are procedures
DetectCallTargets ==
    /\ pc = "detect_calls"
    /\ detector' = _detect_call_targets(detector, cfg.basic_blocks)
    /\ pc' = "detect_prologues"
    /\ UNCHANGED <<file, ingestor, disasm, builder, cfg, exception, result, classifier>>

\* detect_procedures method 3: prologue pattern detection
DetectPrologues ==
    /\ pc = "detect_prologues"
    /\ detector' = _detect_prologues(detector, cfg.basic_blocks)
    /\ pc' = "call_graph"
    /\ UNCHANGED <<file, ingestor, disasm, builder, cfg, exception, result, classifier>>

\* detect_procedures: build the call graph and return the procedures
BuildCallGraph ==
    /\ pc = "call_graph"
    /\ detector' = _build_call_graph(detector, cfg.basic_blocks)
    /\ pc' = "detected"
    /\ UNCHANGED <<file, ingestor, disasm, builder, cfg, exception, result, classifier>>

NextDetect ==
    \/ DetectEntryPoints
    \/ DetectCallTargets
    \/ DetectPrologues
    \/ BuildCallGraph

SpecDetect == InitDetect /\ [][NextDetect]_vars

\* ProcedureDetector.detect_procedures on a fresh detector: the four passes in order
detect_procedures(c) ==
    _build_call_graph(
        _detect_prologues(
            _detect_call_targets(
                DetectEntries(NewDetector, c.entry_points, c.basic_blocks),
                c.basic_blocks),
            c.basic_blocks),
        c.basic_blocks)

RECURSIVE SuccessorOrders(_, _)
\* one iteration order of the successor set of every block from position b on
SuccessorOrders(blocks, b) ==
    IF b > Len(blocks) THEN {<<>>}
    ELSE { <<p>> \o rest : p \in Perms(blocks[b].successors),
                           rest \in SuccessorOrders(blocks, b + 1) }

\* the CFG c as another run may hold it: the same blocks and edges, the
\* successor sets iterated in any order
Reruns(c) ==
    { [c EXCEPT !.basic_blocks =
          [b \in 1..Len(c.basic_blocks) |->
              [c.basic_blocks[b] EXCEPT !.successors_iter = it[b]]]] :
        it \in SuccessorOrders(c.basic_blocks, 1) }

----------------------------------------------------------------------------
(* NativeDecoder.decode_instruction on single instructions *)

\* the values of a byte
Bytes == 0..255

\* second bytes of an instruction: register pairs F,0  F,E  8,E  E,5  0,E  F,1  F,4
DecodeRegBytes == {240, 254, 142, 229, 14, 241, 244}

\* bytes three to six of an instruction: base/displacement halves and 32-bit immediates
DecodeTails ==
    { <<0, 4, 0, 0>>, <<15, 255, 0, 0>>, <<16, 0, 0, 0>>, <<208, 32, 0, 0>>,
      <<0, 0, 0, 8>>, <<255, 255, 255, 254>>, <<0, 1, 0, 0>> }

\* the addresses instructions are decoded at
DecodeAddresses == {0, 4096}

\* the buffers handed to decode_instruction: every first byte, cut to 2, 4 or 6 bytes
DecodeInputs ==
    { Slice(<<op, r>> \o t, 0, n) :
        op \in Bytes, r \in DecodeRegBytes, t \in DecodeTails, n \in {2, 4, 6} }

InitDecode ==
    /\ file \in DecodeInputs
    /\ pc = "decode"
    /\ ingestor = NewIngestor
    /\ disasm = NoDisasm
    /\ builder = NewBuilder
    /\ cfg = NewCfg(<<>>)
    /\ detector = NewDetector
    /\ classifier = NewClassifier
    /\ exception = ""
    /\ result = "pending"

\* decoder.decode_instruction(data, 0, address): the Instruction, or None when the
\* buffer is shorter than the instruction
DecodeInstruction ==
    /\ pc = "decode"
    /\ \E address \in DecodeAddresses :
          disasm' = [disasm EXCEPT !.instructions =
                        IF CanDecode(file, 0)
                        THEN <<decode_instruction(file, 0, address)>>
                        ELSE <<>>]
    /\ pc' = "decoded"
    /\ UNCHANGED <<file, ingestor, builder, cfg, detector, exception, result, classifier>>

NextDecode == DecodeInstruction

SpecDecode == InitDecode /\ [][NextDecode]_vars

----------------------------------------------------------------------------
(* RegionClassifier.classify on a disassembly cut into sections *)

\* a decodable instruction (BALR 14,15) and one without a mnemonic (00 03)
ClassifyChunks == {<<5, 239>>, <<0, 3>>}

RECURSIVE ClassifyChunkSeqs(_)
ClassifyChunkSeqs(n) ==
    IF n = 0 THEN {<<>>}
    ELSE { c \o t : c \in ClassifyChunks, t \in ClassifyChunkSeqs(n - 1) }

RECURSIVE Repeat(_, _)
\* n copies of the byte string s
Repeat(s, n) == IF n = 0 THEN <<>> ELSE s \o Repeat(s, n - 1)

\* BALR, then 256 bytes of which 126 decode (MVC) and the rest do not (opcodes
\* D0 and 00 have no mnemonic), then BALR
LargePool ==
    <<5, 239>>
    \o Repeat(<<210, 7, 16, 0, 32, 0>> \o <<208, 0, 0, 0, 0, 0>>, 21)
    \o <<0, 3, 0, 3>>
    \o <<5, 239>>

\* the byte strings that are disassembled and classified
ClassifyInputs ==
    UNION { ClassifyChunkSeqs(n) : n \in 1..MaxClassifyChunks } \cup {LargePool}

\* the offsets at which data is cut into sections: every offset of a short
\* input, the offsets around the two ends of a long one
CutPoints(data) ==
    IF Len(data) <= 2 * MaxClassifyChunks THEN 0..Len(data)
    ELSE {0, 2, Len(data) - 3, Len(data) - 2, Len(data)}

\* the section list (start, end, bytes) that cuts data at the offsets of cuts;
\* two equal cuts give an empty section with end = start - 1
SectionsOf(data, cuts) ==
    [k \in 1..(Len(cuts) + 1) |->
        LET lo == IF k = 1 THEN 0 ELSE cuts[k - 1]
            hi == IF k = Len(cuts) + 1 THEN Len(data) ELSE cuts[k]
        IN  <<lo, hi - 1, Slice(data, lo, hi)>>]

\* the section lists handed to classify for data: consecutive sections in
\* address order that cover it
ClassifySections(data) ==
    UNION { { SectionsOf(data, cuts) :
                cuts \in { c \in [1..(n - 1) -> CutPoints(data)] :
                             \A i, j \in 1..(n - 1) : i < j => c[i] <= c[j] } } :
            n \in 1..MaxSections }

InitClassify ==
    /\ file \in ClassifyInputs
    /\ pc = "classify"
    /\ ingestor = NewIngestor
    /\ disasm = disassemble(file, 0, NewIngestor.metadata)
    /\ builder = NewBuilder
    /\ cfg = NewCfg(<<>>)
    /\ detector = NewDetector
    /\ classifier \in { [sections |-> s, regions |-> <<>>] : s \in ClassifySections(file) }
    /\ exception = ""
    /\ result = "pending"

\* classify: one round of the loop over sections
ClassifySection ==
    /\ pc = "classify"
    /\ Len(classifier.regions) < Len(classifier.sections)
    /\ LET section == classifier.sections[Len(classifier.regions) + 1]
       IN  classifier' = [classifier EXCEPT !.regions =
                             Append(@, _classify_section(section[1], section[2],
                                                         disasm.instructions))]
    /\ UNCHANGED <<file, pc, ingestor, disasm, builder, cfg, detector, exception, result>>

\* classify: self._detect_constant_pools() after the loop, then return
DetectConstantPools ==
    /\ pc = "classify"
    /\ Len(classifier.regions) = Len(classifier.sections)
    /\ classifier' = [classifier EXCEPT !.regions = _detect_constant_pools(@, 1)]
    /\ pc' = "classified"
    /\ UNCHANGED <<file, ingestor, disasm, builder, cfg, detector, exception, result>>

NextClassify ==
    \/ ClassifySection
    \/ DetectConstantPools

SpecClassify == InitClassify /\ [][NextClassify]_vars

----------------------------------------------------------------------------
(* Properties *)

\* process_file has returned for a file that load_file accepted
Returned == pc = "returned" /\ Len(file) >= 8

\* Disassembler.disassemble has produced its result
Disassembled == pc \in {"disassembled", "leaders", "blocks", "edges", "raised", "returned"}
                /\ Len(file) >= 8

\* the last instruction of the block the builder constructed
LastOfBlock == builder.block.instructions[Len(builder.block.instructions)]

\* inst is a branch whose target is the address of a decoded instruction
ResolvedBranch(inst) ==
    /\ inst.is_branch
    /\ Truthy(inst.branch_target)
    /\ inst.branch_target \in InstructionMap(disasm.instructions)

\* C1: for every readable file of at least 8 bytes process_file returns a
\* DisassemblyResult: build_cfg and detect_procedures complete without raising.
C1_ProcessFileReturnsResult ==
    Returned => (result = "DisassemblyResult" /\ exception = "")

\* C2 (as claimed): every two consecutive instructions i, j of the disassembly
\* satisfy i.address + len(i.raw_bytes) = j.address.
C2_Contiguous ==
    Disassembled =>
        \A i \in 1..(Len(disasm.instructions) - 1) :
            disasm.instructions[i].address + Len(disasm.instructions[i].raw_bytes)
                = disasm.instructions[i + 1].address

\* the unknown region, if any, that covers exactly the addresses lo..hi
RegionExactly(lo, hi) ==
    \E r \in 1..Len(disasm.unknown_regions) :
        /\ disasm.unknown_regions[r][1] = lo
        /\ disasm.unknown_regions[r][2] = hi
        /\ Len(disasm.unknown_regions[r][3]) = hi - lo + 1

\* C2 (amended): consecutive instructions never overlap, and the bytes between
\* two consecutive instructions, if there are any, are exactly one recorded
\* unknown region.
C2_ContiguousOrUnknownRegion ==
    Disassembled =>
        \A i \in 1..(Len(disasm.instructions) - 1) :
            LET stop == disasm.instructions[i].address + Len(disasm.instructions[i].raw_bytes)
                next == disasm.instructions[i + 1].address
            IN  /\ stop <= next
                /\ stop < next => RegionExactly(stop, next - 1)

\* C2 witness: a disassembly with an unknown region between two decoded instructions
C2_Witness ==
    /\ Disassembled
    /\ \E i \in 1..(Len(disasm.instructions) - 1) :
          disasm.instructions[i].address + Len(disasm.instructions[i].raw_bytes)
              < disasm.instructions[i + 1].address

\* C3: after build_cfg every successor id of every block is a key of
\* cfg.basic_blocks and the block's id is among that successor's predecessors.
C3_EdgeSymmetry ==
    (Returned /\ builder.block # NoBlock) =>
        /\ exception = ""
        /\ \A b \in 1..Len(cfg.basic_blocks) : \A s \in cfg.basic_blocks[b].successors :
              /\ BlockById(s, cfg.basic_blocks) # 0
              /\ cfg.basic_blocks[b].id
                    \in cfg.basic_blocks[BlockById(s, cfg.basic_blocks)].predecessors

\* C4: every basic block the CFG builder creates has a non-empty instruction
\* list, starts at the address of its first instruction and ends at the
\* address of its last instruction.
C4_BlockBounds ==
    builder.block # NoBlock =>
        /\ builder.block.instructions # <<>>
        /\ builder.block.start_address = builder.block.instructions[1].address
        /\ builder.block.end_address = LastOfBlock.address

\* C4 witness: the builder created a block of several instructions that stops
\* before the end of the instruction stream
C4_Witness ==
    /\ builder.block # NoBlock
    /\ Len(builder.block.instructions) >= 2
    /\ Len(builder.block.instructions) < Len(disasm.instructions)

\* C5: the entry address of every detected procedure is the start address of
\* one of the procedure's blocks.
C5_EntryIsBlockStart ==
    pc = "detected" =>
        \A k \in 1..Len(detector.procedures) :
            \E m \in 1..Len(detector.procedures[k].basic_blocks) :
                LET bi == BlockById(detector.procedures[k].basic_blocks[m], cfg.basic_blocks)
                IN  /\ bi # 0
                    /\ cfg.basic_blocks[bi].start_address = detector.procedures[k].entry_address

\* C6: a block that ends in an unconditional branch has exactly one successor,
\* the target block, when the target is resolved, and none when it is not.
C6_UnconditionalSuccessors ==
    (Returned /\ builder.block # NoBlock /\ _is_unconditional_branch(LastOfBlock)) =>
        IF ResolvedBranch(LastOfBlock)
        THEN builder.block.successors = {"block_" \o Hex(LastOfBlock.branch_target, 8)}
        ELSE builder.block.successors = {}

\* C7: a block that ends in a conditional branch with a resolved target has
\* exactly two successors, the target block and the fall-through block.
C7_ConditionalSuccessors ==
    (/\ Returned
     /\ builder.block # NoBlock
     /\ ~_is_unconditional_branch(LastOfBlock)
     /\ ~LastOfBlock.is_call
     /\ ResolvedBranch(LastOfBlock)) =>
        /\ Cardinality(builder.block.successors) = 2
        /\ "block_" \o Hex(LastOfBlock.branch_target, 8) \in builder.block.successors
        /\ builder.block.fall_through \in builder.block.successors

\* C8: after build_cfg every branch whose target cannot be computed statically
\* has its address in cfg.unresolved_branches and an UNRESOLVED_TARGET annotation.
C8_UnresolvedRecorded ==
    Returned =>
        \A i \in 1..Len(disasm.instructions) :
            (/\ disasm.instructions[i].is_branch
             /\ ~disasm.instructions[i].is_return
             /\ disasm.instructions[i].branch_target = None) =>
                /\ \E u \in 1..Len(cfg.unresolved_branches) :
                      cfg.unresolved_branches[u] = disasm.instructions[i].address
                /\ disasm.instructions[i].annotation
                      \in {"UNRESOLVED_TARGET", "UNRESOLVED_TARGET (indirect)"}

\* the input starts with 47 F0 10 00 and its code is decoded from address 0
StartsWithBC15 ==
    /\ Disassembled
    /\ ingestor.code_start = 0
    /\ Slice(file, 0, 4) = <<71, 240, 16, 0>>

\* C9 (as claimed): 47 F0 10 00 at address 0 decodes to BC with operands
\* "15" and "4096(0)", is_branch true and branch_target 0x1000.
C9_BC15Absolute ==
    StartsWithBC15 =>
        /\ disasm.instructions[1].mnemonic = "BC"
        /\ disasm.instructions[1].operands = <<"15", "4096(0)">>
        /\ disasm.instructions[1].is_branch
        /\ disasm.instructions[1].branch_target = 4096

\* C9 (amended): 47 F0 10 00 at address 0 decodes to BC with operands "15" and
\* "0(1)" (base register 1, displacement 0), is_branch true and no branch target.
C9_BC15BaseRegister ==
    StartsWithBC15 =>
        /\ disasm.instructions[1].address = 0
        /\ disasm.instructions[1].mnemonic = "BC"
        /\ disasm.instructions[1].operands = <<"15", "0(1)">>
        /\ disasm.instructions[1].is_branch
        /\ disasm.instructions[1].branch_target = None

\* C9 witness: such an input has been disassembled
C9_Witness == StartsWithBC15 /\ Len(disasm.instructions) >= 1

\* the block's first instruction is STM with first register field 14
StartsWithSTM14(block) ==
    /\ block.instructions # <<>>
    /\ block.instructions[1].mnemonic = "STM"
    /\ block.instructions[1].raw_bytes[2] \div 16 = 14

\* C10: every block that starts with STM 14,... and whose start is not the
\* entry of an entry-point or call-target procedure becomes a procedure
\* FUNC_<hex> detected by prologue_pattern.
C10_PrologueDetected ==
    pc = "detected" =>
        \A b \in 1..Len(cfg.basic_blocks) :
            (/\ StartsWithSTM14(cfg.basic_blocks[b])
             /\ ~\E k \in 1..Len(detector.procedures) :
                   /\ detector.procedures[k].detection_method \in {"entry_point", "call_target"}
                   /\ detector.procedures[k].entry_address = cfg.basic_blocks[b].start_address)
            => \E k \in 1..Len(detector.procedures) :
                   /\ detector.procedures[k].detection_method = "prologue_pattern"
                   /\ detector.procedures[k].entry_address = cfg.basic_blocks[b].start_address
                   /\ detector.procedures[k].name
                         = "FUNC_" \o Hex(cfg.basic_blocks[b].start_address, 8)

\* the code bytes Disassembler.disassemble was given
CodeBytes == get_code_bytes(ingestor)

\* the 10-byte code buffers whose last byte is 0xFF, once disassembled
TailCase == Disassembled /\ Len(CodeBytes) = 10 /\ CodeBytes[10] = 255

\* an unknown region of length at least 1 ends at the last byte of the code
RegionAtTail ==
    \E r \in 1..Len(disasm.unknown_regions) :
        /\ disasm.unknown_regions[r][2] = ingestor.code_start + Len(CodeBytes) - 1
        /\ disasm.unknown_regions[r][1] <= disasm.unknown_regions[r][2]
        /\ Len(disasm.unknown_regions[r][3])
              = disasm.unknown_regions[r][2] - disasm.unknown_regions[r][1] + 1

\* a decoded instruction covers the last byte of the code
InstructionAtTail ==
    \E i \in 1..Len(disasm.instructions) :
        disasm.instructions[i].address + Len(disasm.instructions[i].raw_bytes)
            = ingestor.code_start + Len(CodeBytes)

\* decode_rate < 1.0
RateBelowOne == disasm.statistics.decode_rate.num < disasm.statistics.decode_rate.den

\* C11 (as claimed): every 10-byte input whose last byte is 0xFF is disassembled
\* with an unknown region of length at least 1 ending at the last byte and
\* decode_rate below 1.0.
C11_TailAlwaysUnknown ==
    TailCase => (RegionAtTail /\ RateBelowOne)

\* C11 (amended): for a 10-byte input whose last byte is 0xFF, an unknown region
\* of length at least 1 ends at the last byte, with decode_rate below 1.0,
\* exactly when no decoded instruction takes the last byte as its own; a
\* 2-byte instruction decoded at offset 8 takes it and leaves no tail region.
C11_TailUnknownUnlessConsumed ==
    TailCase =>
        /\ RegionAtTail <=> ~InstructionAtTail
        /\ RegionAtTail => RateBelowOne

\* C11 witness: such an input whose last byte ends up in an unknown region
C11_Witness == TailCase /\ RegionAtTail /\ disasm.instructions # <<>>

\* C13: decoded_bytes + unknown_bytes is the length of the code swept, and
\* decode_rate is decoded_bytes / (decoded_bytes + unknown_bytes), within [0, 1]:
\* 0 for empty code, and for non-empty code 1 exactly when there is no unknown region.
C13_StatisticsAccount ==
    Disassembled =>
        LET st == disasm.statistics
        IN  /\ st.decoded_bytes + st.unknown_bytes = Len(CodeBytes)
            /\ st.decode_rate.den > 0
            /\ 0 <= st.decode_rate.num /\ st.decode_rate.num <= st.decode_rate.den
            /\ st.decode_rate.num * (st.decoded_bytes + st.unknown_bytes)
                  = st.decoded_bytes * st.decode_rate.den
            /\ Len(CodeBytes) = 0 => st.decode_rate.num = 0
            /\ Len(CodeBytes) > 0 =>
                  (st.decode_rate.num = st.decode_rate.den <=> disasm.unknown_regions = <<>>)

\* C13 witness: a disassembly with decoded instructions and unknown bytes
C13_Witness ==
    /\ Disassembled
    /\ disasm.statistics.decoded_bytes > 0
    /\ disasm.statistics.unknown_bytes > 1

\* decode_instruction has returned an Instruction
Decoded == pc = "decoded" /\ disasm.instructions # <<>>

\* the instruction length the length table is specified to give first byte op
ClaimedLength(op) ==
    IF op <= 31 THEN 2
    ELSE IF (64 <= op /\ op <= 95) \/ (134 <= op /\ op <= 155)
            \/ op \in {165, 167, 178, 179, 185} THEN 4
    ELSE IF op \in {192, 194, 196, 198, 200} \/ (208 <= op /\ op <= 223)
            \/ op \in {227, 235, 236, 237} \/ (240 <= op /\ op <= 253) THEN 6
    ELSE 2

\* C12: get_instruction_length gives every first byte the specified length:
\* an instruction decoded from a 6-byte buffer takes that many bytes.
C12_LengthTable ==
    (Decoded /\ Len(file) = 6) =>
        /\ get_instruction_length(file[1]) = ClaimedLength(file[1])
        /\ Len(disasm.instructions[1].raw_bytes) = ClaimedLength(file[1])

\* C16: a decoded 4-byte RX-format branch has branch_target equal to its 12-bit
\* displacement when its base register is 0 and None when it is not; a 2-byte
\* RR-format branch has branch_target None.
C16_RXBranchTarget ==
    (Decoded /\ disasm.instructions[1].is_branch) =>
        LET inst == disasm.instructions[1]
        IN  /\ (inst.format = "RX" /\ Len(inst.raw_bytes) = 4) =>
                  inst.branch_target =
                      IF file[3] \div 16 = 0 THEN (file[3] % 16) * 256 + file[4] ELSE None
            /\ (inst.format = "RR" /\ Len(inst.raw_bytes) = 2) => inst.branch_target = None

\* C16 witness: BC with base register 0 decoded with the target 0xFFF
C16_Witness ==
    /\ Decoded
    /\ disasm.instructions[1].mnemonic = "BC"
    /\ disasm.instructions[1].format = "RX"
    /\ disasm.instructions[1].branch_target = 4095

\* C17: a decoded instruction is a return exactly when it is BCR with mask 15
\* and register 14.
C17_ReturnIsBCR1514 ==
    Decoded =>
        (disasm.instructions[1].is_return <=> (file[1] = 7 /\ file[2] = 254))

\* C18: a 6-byte RIL instruction (first byte C0, C2, C4, C6 or C8) decoded at
\* address a with signed 32-bit immediate i2 has branch_target a + 2 * i2.
C18_RILTarget ==
    (Decoded /\ file[1] \in {192, 194, 196, 198, 200}) =>
        disasm.instructions[1].branch_target
            = disasm.instructions[1].address + 2 * S32(SubSeq(file, 3, 6))

\* the file was loaded: load_file returned True, so the metadata record and the
\* code slice of the ingestor are those of the file
LoadedWell ==
    /\ ingestor.data = file
    /\ ingestor.metadata.format_type \in {"program_object", "load_module", "unknown"}
    /\ 0 <= ingestor.code_start
    /\ ingestor.code_start <= ingestor.code_end
    /\ ingestor.code_end <= Len(file)
    /\ CodeBytes = SubSeq(file, ingestor.code_start + 1, ingestor.code_end)

\* C15 (as claimed): ingesting a file shorter than 8 bytes fails with a
\* FormatError and no result, and every file of 8 bytes or more loads and
\* yields a metadata record and a code byte slice.
C15_ShortFileFormatError ==
    /\ (pc = "returned" /\ Len(file) < 8) => (exception = "FormatError" /\ result = "None")
    /\ (pc # "start" /\ Len(file) >= 8) => LoadedWell

\* C15 (amended): for a file shorter than 8 bytes load_file returns False
\* without raising, process_file returns None and nothing is disassembled;
\* every file of 8 bytes or more loads and yields a metadata record and a code
\* byte slice (possibly empty).
C15_ShortFileRejected ==
    /\ Len(file) < 8 =>
          /\ pc \in {"start", "returned"}
          /\ exception = ""
          /\ disasm = NoDisasm
          /\ pc = "returned" => result = "None"
    /\ (pc # "start" /\ Len(file) >= 8) => LoadedWell

\* C15 witness: process_file has returned None for a file of 1 to 7 bytes
C15_Witness == pc = "returned" /\ Len(file) \in 1..7 /\ result = "None"

\* _find_leaders has run on the disassembly of an accepted file
LeadersFound == Len(file) >= 8 /\ pc \in {"leaders", "blocks", "edges", "raised", "returned"}

\* address is the resolved target of some branch of the instruction stream
IsResolvedTarget(address) ==
    \E j \in 1..Len(disasm.instructions) :
        /\ ResolvedBranch(disasm.instructions[j])
        /\ disasm.instructions[j].branch_target = address

\* address is one of the CFG's entry points
IsEntryPoint(address) ==
    \E e \in 1..Len(disasm.entry_points) : disasm.entry_points[e] = address

\* inst is a branch that can fall through
ConditionalBranch(inst) == inst.is_branch /\ ~_is_unconditional_branch(inst)

\* C19: the instruction after a conditional branch, a call or a return is a
\* leader; the instruction after an unconditional non-return branch is a leader
\* only if it is an entry point or a resolved branch target.
C19_LeaderAfterTransfer ==
    LeadersFound =>
        \A i \in 1..(Len(disasm.instructions) - 1) :
            LET inst == disasm.instructions[i]
                next == disasm.instructions[i + 1].address
            IN  /\ (ConditionalBranch(inst) \/ inst.is_call \/ inst.is_return)
                      => next \in builder.leaders
                /\ (_is_unconditional_branch(inst) /\ ~inst.is_return /\ next \in builder.leaders)
                      => (IsEntryPoint(next) \/ IsResolvedTarget(next))

Range(q) == { q[k] : k \in 1..Len(q) }

\* what two runs are compared on: the procedures in creation order with their
\* ids, names, entries, methods, block sets, exits and call relations
ProcedureSummary(det) ==
    [k \in 1..Len(det.procedures) |->
        [id |-> det.procedures[k].id,
         name |-> det.procedures[k].name,
         entry_address |-> det.procedures[k].entry_address,
         detection_method |-> det.procedures[k].detection_method,
         basic_blocks |-> Range(det.procedures[k].basic_blocks),
         exit_addresses |-> Range(det.procedures[k].exit_addresses),
         calls_to |-> det.procedures[k].calls_to,
         called_by |-> det.procedures[k].called_by]]

AfterBlock ==
    { i \in 1..Len(disasm.instructions) :
        disasm.instructions[i].address > builder.block.end_address }

\* the id of the block that starts at the first instruction after the builder's block
NextBlockId ==
    LET i == CHOOSE x \in AfterBlock : \A y \in AfterBlock : x <= y
    IN  "block_" \o Hex(disasm.instructions[i].address, 8)

\* C21: a block that ends in a call (BALR, BASR, BAL, BAS) and is followed by
\* another block has that fall-through block as its only successor; no edge
\* goes to the call target.
C21_CallFallThroughOnly ==
    (/\ Returned
     /\ builder.block # NoBlock
     /\ LastOfBlock.is_call
     /\ AfterBlock # {}) =>
        builder.block.successors = {NextBlockId}

\* the branches of the stream whose computed target is not a decoded instruction
DanglingBranches ==
    { i \in 1..Len(disasm.instructions) :
        /\ disasm.instructions[i].is_branch
        /\ Truthy(disasm.instructions[i].branch_target)
        /\ disasm.instructions[i].branch_target \notin InstructionMap(disasm.instructions) }

\* C22: build_cfg completes and cfg.unresolved_branches holds no address twice,
\* also for a branch that both recording passes see.
C22_UnresolvedOnce ==
    (Returned /\ DanglingBranches # {}) =>
        /\ exception = ""
        /\ \A u, v \in 1..Len(cfg.unresolved_branches) :
              cfg.unresolved_branches[u] = cfg.unresolved_branches[v] => u = v

\* C23: after build_cfg the block that starts at an entry point of the CFG is
\* the ENTRY block: its type is ENTRY and its first instruction is labelled "ENTRY".
C23_EntryBlock ==
    (/\ Returned
     /\ builder.block # NoBlock
     /\ IsEntryPoint(builder.block.start_address)) =>
        /\ builder.block.block_type = "entry"
        /\ builder.block.instructions[1].synthetic_label = "ENTRY"

\* C28: build_cfg completes, every address in cfg.unresolved_branches is the
\* address of a branch that is not a return, and a block that ends in a return
\* has no successors, is not recorded as unresolved and is not annotated.
C28_ReturnNotUnresolved ==
    (/\ Returned
     /\ builder.block # NoBlock
     /\ LastOfBlock.is_return) =>
        /\ exception = ""
        /\ builder.block.successors = {}
        /\ LastOfBlock.annotation = ""
        /\ \A u \in 1..Len(cfg.unresolved_branches) :
              /\ cfg.unresolved_branches[u] # LastOfBlock.address
              /\ \E i \in 1..Len(disasm.instructions) :
                    /\ disasm.instructions[i].address = cfg.unresolved_branches[u]
                    /\ disasm.instructions[i].is_branch
                    /\ ~disasm.instructions[i].is_return

\* C29: build_cfg completes and a block's terminating branch is either resolved
\* or unresolved: when its address is in cfg.unresolved_branches the block has
\* no branch targets, and a branch target is the id of the block that starts at
\* the branch's target address.
C29_ResolvedXorUnresolved ==
    (/\ Returned
     /\ builder.block # NoBlock
     /\ LastOfBlock.is_branch
     /\ Truthy(LastOfBlock.branch_target)) =>
        /\ exception = ""
        /\ (\E u \in 1..Len(cfg.unresolved_branches) :
                cfg.unresolved_branches[u] = LastOfBlock.address)
              => builder.block.branch_targets = <<>>
        /\ \A t \in 1..Len(builder.block.branch_targets) :
              builder.block.branch_targets[t] = "block_" \o Hex(LastOfBlock.branch_target, 8)

\* C30: after build_cfg every decoded instruction belongs to exactly one block
\* of the CFG, the instructions before the entry point included.
C30_BlocksPartition ==
    Returned =>
        \A i \in 1..Len(disasm.instructions) :
            Cardinality({ b \in 1..Len(cfg.basic_blocks) :
                            \E k \in 1..Len(cfg.basic_blocks[b].instructions) :
                                cfg.basic_blocks[b].instructions[k].address
                                    = disasm.instructions[i].address }) = 1

\* the position of a detection pass in detect_procedures
MethodRank(method) ==
    IF method = "entry_point" THEN 1 ELSE IF method = "call_target" THEN 2 ELSE 3

\* C24: the procedures detect_procedures returns are numbered proc_0001..proc_N
\* in creation order without gaps, entry-point procedures before call-target
\* procedures before prologue procedures, and no two procedures have the same
\* entry address.
C24_ProcedureIds ==
    pc = "detected" =>
        /\ \A k \in 1..Len(detector.procedures) :
              detector.procedures[k].id = "proc_" \o Dec4(k)
        /\ detector.proc_counter = Len(detector.procedures) + 1
        /\ \A k, m \in 1..Len(detector.procedures) :
              k < m => MethodRank(detector.procedures[k].detection_method)
                          <= MethodRank(detector.procedures[m].detection_method)
        /\ \A k, m \in 1..Len(detector.procedures) :
              detector.procedures[k].entry_address = detector.procedures[m].entry_address
                  => k = m

\* C24 witness: an entry-point procedure and a call-target procedure were detected
C24_Witness ==
    /\ pc = "detected"
    /\ \E k, m \in 1..Len(detector.procedures) :
          /\ detector.procedures[k].detection_method = "entry_point"
          /\ detector.procedures[m].detection_method = "call_target"

\* the edge from the block at position bi to the block at position si is a
\* fall-through edge (si is the next block in address order) or the edge of a
\* branch that is not a call
IntraProceduralEdge(blocks, bi, si) ==
    /\ blocks[si].id \in blocks[bi].successors
    /\ \/ si = bi + 1
       \/ ~blocks[bi].instructions[Len(blocks[bi].instructions)].is_call

RECURSIVE IntraClosure(_, _)
\* the positions reachable from the positions S over intra-procedural edges
IntraClosure(blocks, S) ==
    LET more == { si \in 1..Len(blocks) : \E bi \in S : IntraProceduralEdge(blocks, bi, si) }
    IN  IF more \subseteq S THEN S ELSE IntraClosure(blocks, S \cup more)

\* C25: the block list of every detected procedure is closed under fall-through
\* and non-call branch edges, and holds no block that is reachable from the
\* procedure's first block only through a call edge.
C25_ProcedureBlocksClosed ==
    pc = "detected" =>
        \A k \in 1..Len(detector.procedures) :
            LET p == detector.procedures[k]
                start == _find_block_by_address(p.entry_address, cfg.basic_blocks)
            IN  Range(p.basic_blocks)
                    = { cfg.basic_blocks[bi].id : bi \in IntraClosure(cfg.basic_blocks, {start}) }

\* the number of addresses in start_addr..end_addr that hold a byte of an
\* instruction whose mnemonic is not "UNKNOWN"
DecodedAddresses(start_addr, end_addr) ==
    Cardinality({ a \in start_addr..end_addr :
                    \E i \in 1..Len(disasm.instructions) :
                        /\ disasm.instructions[i].mnemonic # "UNKNOWN"
                        /\ disasm.instructions[i].address <= a
                        /\ a < disasm.instructions[i].address
                                + Len(disasm.instructions[i].raw_bytes) })

\* C26: the decode_rate of every region classify returns lies in [0, 1] and is
\* the number of bytes of non-UNKNOWN instructions inside the section's address
\* range divided by the section size.
C26_DecodeRateInUnitInterval ==
    pc = "classified" =>
        \A r \in 1..Len(classifier.regions) :
            LET region == classifier.regions[r]
                section_size == region.end_addr - region.start_addr + 1
            IN  /\ 0 <= region.decode_rate.num
                /\ region.decode_rate.num <= region.decode_rate.den
                /\ section_size > 0 =>
                      region.decode_rate.num * section_size
                          = DecodedAddresses(region.start_addr, region.end_addr)
                                * region.decode_rate.den

\* the band the thresholds put a decode rate in
Band(decode_rate) ==
    IF 100 * decode_rate.num > CODE_THRESHOLD * decode_rate.den THEN "code"
    ELSE IF 100 * decode_rate.num < DATA_THRESHOLD * decode_rate.den THEN "data"
    ELSE "unknown"

\* region r is smaller than 256 bytes and the regions immediately before and
\* immediately after it are CODE
FlankedByCode(regions, r) ==
    /\ regions[r].end_addr - regions[r].start_addr + 1 < 256
    /\ r > 1 /\ regions[r - 1].region_type = "code"
    /\ r < Len(regions) /\ regions[r + 1].region_type = "code"

\* C27: after the post-pass a region of the UNKNOWN band is DATA with confidence
\* MEDIUM exactly when it is smaller than 256 bytes and the regions immediately
\* before and after it are both CODE; every other region has the type of its band.
C27_ConstantPoolFlanked ==
    pc = "classified" =>
        \A r \in 1..Len(classifier.regions) :
            LET region == classifier.regions[r]
            IN  IF Band(region.decode_rate) = "unknown" /\ FlankedByCode(classifier.regions, r)
                THEN region.region_type = "data" /\ region.confidence = "medium"
                ELSE region.region_type = Band(region.decode_rate)

\* some CODE region ends before region r starts and some CODE region starts
\* after region r ends
BetweenCode(regions, r) ==
    /\ \E a \in 1..Len(regions) :
          Band(regions[a].decode_rate) = "code" /\ regions[a].end_addr < regions[r].start_addr
    /\ \E b \in 1..Len(regions) :
          Band(regions[b].decode_rate) = "code" /\ regions[b].start_addr > regions[r].end_addr

\* C27 (amended): after the post-pass a region of the UNKNOWN band is DATA with
\* confidence MEDIUM exactly when it is smaller than 256 bytes and lies between
\* two CODE regions, adjacent to it or not; every other region has the type and
\* the confidence of its band.
C27_ConstantPoolBetweenCode ==
    pc = "classified" =>
        \A r \in 1..Len(classifier.regions) :
            LET region == classifier.regions[r]
                band == Band(region.decode_rate)
            IN  IF /\ band = "unknown"
                   /\ region.end_addr - region.start_addr + 1 < 256
                   /\ BetweenCode(classifier.regions, r)
                THEN region.region_type = "data" /\ region.confidence = "medium"
                ELSE /\ region.region_type = band
                     /\ region.confidence = (IF band = "code" THEN "high"
                                             ELSE IF band = "data" THEN "medium" ELSE "low")

\* C27 witness: the post-pass reclassified a region of the UNKNOWN band whose
\* next region is not CODE
C27_Witness ==
    /\ pc = "classified"
    /\ \E r \in 1..(Len(classifier.regions) - 1) :
          /\ Band(classifier.regions[r].decode_rate) = "unknown"
          /\ classifier.regions[r].region_type = "data"
          /\ classifier.regions[r + 1].region_type # "code"

\* a region of 256 bytes in the UNKNOWN band between two CODE regions stays UNKNOWN
C27_LargeStays ==
    /\ pc = "classified"
    /\ \E r \in 2..(Len(classifier.regions) - 1) :
          /\ classifier.regions[r].end_addr - classifier.regions[r].start_addr + 1 = 256
          /\ classifier.regions[r - 1].region_type = "code"
          /\ classifier.regions[r + 1].region_type = "code"
          /\ classifier.regions[r].region_type = "unknown"

=============================================================================
